---- MODULE Spec2Model ----
(***************************************************************************)
(* guiqwt.qthelpers: the three ready-to-use image dialogs                  *)
(*   exec_image_save_dialog, exec_image_open_dialog,                       *)
(*   exec_images_open_dialog                                               *)
(* One call of one of the three functions is modelled as a state machine.  *)
(* The toolkit (file dialogs, parameter forms, message boxes), the file    *)
(* system and guiqwt.io are the environment: what a dialog or a form       *)
(* returns and whether io.imread / io.imwrite raises are inputs.  Every    *)
(* call made to the environment is recorded (ioCalls, forms, boxes).       *)
(***************************************************************************)
EXTENDS Integers, Sequences, FiniteSets, TLC

\* Largest number of files the multi-file dialog returns.
MaxFiles == 3

(***************************************************************************)
(* Python values                                                           *)
(***************************************************************************)
\* The None singleton where an argument is either None or a string.
None == "<None>"

\* File names are sequences of characters; "" is the empty sequence.
EmptyStr == << >>

UpperChars == <<"A","B","C","D","E","F","G","H","I","J","K","L","M",
                "N","O","P","Q","R","S","T","U","V","W","X","Y","Z">>
LowerChars == <<"a","b","c","d","e","f","g","h","i","j","k","l","m",
                "n","o","p","q","r","s","t","u","v","w","x","y","z">>

\* str.lower() on one character.
LowerChar(c) ==
    IF \E i \in 1..Len(UpperChars) : UpperChars[i] = c
    THEN LowerChars[CHOOSE i \in 1..Len(UpperChars) : UpperChars[i] = c]
    ELSE c

\* str.lower()
Lower(s) == [i \in 1..Len(s) |-> LowerChar(s[i])]

\* str.rfind(c), 1-based; 0 when c does not occur (Python's -1).
RFind(s, c) ==
    IF \E i \in 1..Len(s) : s[i] = c
    THEN CHOOSE i \in 1..Len(s) : s[i] = c /\ \A j \in (i+1)..Len(s) : s[j] # c
    ELSE 0

\* osp.splitext(p): <<root, ext>>.  The extension starts at the last dot of
\* the last path component, unless that component has only leading dots.
splitext(p) ==
    LET sepIndex == RFind(p, "/")
        dotIndex == RFind(p, ".")
    IN  IF /\ dotIndex > sepIndex
           /\ \E k \in (sepIndex+1)..(dotIndex-1) : p[k] # "."
        THEN << SubSeq(p, 1, dotIndex-1), SubSeq(p, dotIndex, Len(p)) >>
        ELSE << p, EmptyStr >>

\* osp.basename(p): what follows the last separator.
basename(p) == SubSeq(p, RFind(p, "/") + 1, Len(p))

\* _(s): the translation of a message.
Tr(s) == "_(" \o s \o ")"

(***************************************************************************)
(* Inputs                                                                  *)
(***************************************************************************)
\* data.dtype.str of the image handed to the save dialog.
DataDtypes == { "<f4", "<f8", "|u1", "<u2" }

\* template argument: None or a pydicom dataset.
Templates == { None, "dataset" }

\* app_name argument.
AppNames == { None, "MyApp" }

\* File names the save dialog can return ("" = cancelled).
SaveNames ==
    { EmptyStr,
      <<"a",".","p","n","g">>,
      <<"d","/","b",".","t","i","f">>,
      <<"c",".","D","C","M">>,
      <<"e",".","t","x","t">>,
      <<"n","o","e","x","t">> }

\* File names the open dialogs can return.
OpenNames ==
    { <<"a",".","p","n","g">>,
      <<"d","/","b",".","r","a","w">>,
      <<"c",".","b","i","n">>,
      <<"e",".","R","A","W">> }

VARIABLES
    fn,            \* the function being executed, "idle" before the call
    pc,            \* position in the function
    app_name,      \* argument app_name
    to_grayscale,  \* argument to_grayscale
    template,      \* argument template (save)
    data,          \* save: the data argument; open: what io.imread returned
    convert,       \* save: local convert
    dt,            \* save: local dt
    filename,      \* local filename
    kwargs,        \* save: local kwargs
    exc,           \* the exception being handled, None when there is none
    filenames,     \* images: local filenames
    RAW,           \* images: local RAW
    params,        \* images: local params
    one4all,       \* images: local one4all
    param,         \* images: local param, the form last edited
    idx,           \* images: number of files the for loop has taken
    forms,         \* the parameter forms shown (param.edit())
    yielded,       \* images: the tuples the generator has yielded
    ioCalls,       \* the calls made to io.imread / io.imwrite
    boxes,         \* the QMessageBox.critical boxes shown
    result         \* what the call returned

vars == << fn, pc, app_name, to_grayscale, template, data, convert, dt,
           filename, kwargs, exc, filenames, RAW, params, one4all, param,
           idx, forms, yielded, ioCalls, boxes, result >>

\* The locals of exec_image_save_dialog, of exec_images_open_dialog.
saveLocals == << template, convert, dt, kwargs >>
imagesLocals == << filenames, RAW, params, one4all, param, idx, forms, yielded >>

\* A call that has not returned yet / returned None / returned v.
Pending == [kind |-> "pending"]
RetNone == [kind |-> "None"]
Ret(v)  == [kind |-> "value", val |-> v]

\* A dict without keys.
EmptyDict == [k \in {} |-> None]

NoData == [kind |-> "unbound"]

Init ==
    /\ fn = "idle"
    /\ pc = "call"
    /\ app_name = None
    /\ to_grayscale = TRUE
    /\ template = None
    /\ data = NoData
    /\ convert = FALSE
    /\ dt = None
    /\ filename = EmptyStr
    /\ kwargs = EmptyDict
    /\ exc = None
    /\ filenames = << >>
    /\ RAW = FALSE
    /\ params = EmptyDict
    /\ one4all = FALSE
    /\ param = NoData
    /\ idx = 0
    /\ forms = << >>
    /\ yielded = << >>
    /\ ioCalls = << >>
    /\ boxes = << >>
    /\ result = Pending

\* ErrorTitle with the application name ignored.
ErrorTitleNoAppName(name) == Tr("Error")

\* Title of the error box.
ErrorTitle(name) == IF name = None THEN Tr("Error") ELSE name

\* QMessageBox.critical(parent, title, _("%s could not be <what>:") % basename + "\n" + str(msg))
CriticalBox(name, what, fname, msg) ==
    [ title |-> ErrorTitle(name), what |-> Tr(what),
      file |-> basename(fname), msg |-> msg ]

(***************************************************************************)
(* exec_image_save_dialog                                                  *)
(***************************************************************************)
\* float data is converted on writing
IsConvert(dtypestr) == dtypestr = "<f8" \/ dtypestr = "<f4"

\* Names bound when line 80 is evaluated: the function's parameters and the
\* locals assigned before it, and the module's globals.  `ext` is assigned
\* nowhere in exec_image_save_dialog and is no module global.
SaveBoundNames ==
    { "parent", "data", "template", "basedir", "app_name",
      "saved_in", "saved_out", "saved_err", "convert", "dt",
      "filename", "_filter", "kwargs",
      "sys", "osp", "np", "QMessageBox", "getsavefilename",
      "getopenfilename", "getopenfilenames", "_", "io",
      "exec_image_save_dialog", "exec_image_open_dialog",
      "exec_images_open_dialog" }

\* Entry: lines 58-65.
CallSave(d, t, a) ==
    /\ fn = "idle"
    /\ fn' = "save"
    /\ pc' = "dialog"
    /\ data' = [dtype |-> d]
    /\ template' = t
    /\ app_name' = a
    /\ convert' = IsConvert(d)
    /\ dt' = IF IsConvert(d) THEN "uint8" ELSE d
    /\ UNCHANGED << to_grayscale, filename, kwargs, exc, ioCalls, boxes, result,
                    imagesLocals >>

\* getsavefilename: lines 66-73.  When the call with basedir raises
\* TypeError the dialog is executed again with "" as base directory; either
\* way the dialog's answer is the file name f.
SaveDialog(f) ==
    /\ fn = "save" /\ pc = "dialog"
    /\ filename' = f
    /\ pc' = "check"
    /\ UNCHANGED << fn, app_name, to_grayscale, template, data, convert, dt,
                    kwargs, exc, ioCalls, boxes, result, imagesLocals >>

\* Lines 74-78: nothing is done without a file name; the template is
\* passed on for DICOM files.
SaveCheck ==
    /\ fn = "save" /\ pc = "check"
    /\ IF filename # EmptyStr
       THEN /\ kwargs' = IF Lower(splitext(filename)[2]) = <<".","d","c","m">>
                         THEN [template |-> template]
                         ELSE EmptyDict
            /\ pc' = "try"
            /\ UNCHANGED result
       ELSE /\ pc' = "done"
            /\ result' = RetNone
            /\ UNCHANGED kwargs
    /\ UNCHANGED << fn, app_name, to_grayscale, template, data, convert, dt,
                    filename, exc, ioCalls, boxes, imagesLocals >>

\* Lines 79-89.  `convert == False or ext == ...` is evaluated left to
\* right: without conversion the write is done at once; with conversion
\* the name ext is looked up and the lookup raises NameError before any
\* write.  ok: whether io.imwrite returns (TRUE) or raises (FALSE).
SaveTry(ok) ==
    /\ fn = "save" /\ pc = "try"
    /\ IF convert = FALSE
       THEN /\ ioCalls' = Append(ioCalls,
                  [op |-> "imwrite", filename |-> filename, data |-> data,
                   kwargs |-> kwargs, ok |-> ok])
            /\ IF ok
               THEN /\ pc' = "done"
                    /\ result' = Ret(filename)
                    /\ UNCHANGED exc
               ELSE /\ pc' = "except"
                    /\ exc' = "IOError"
                    /\ UNCHANGED result
       ELSE /\ "ext" \notin SaveBoundNames
            /\ pc' = "except"
            /\ exc' = "NameError"
            /\ UNCHANGED << ioCalls, result >>
    /\ UNCHANGED << fn, app_name, to_grayscale, template, data, convert, dt,
                    filename, kwargs, boxes, imagesLocals >>

\* Lines 90-101: the handler of `except Exception`.
SaveExcept ==
    /\ fn = "save" /\ pc = "except"
    /\ boxes' = Append(boxes, CriticalBox(app_name, "%s could not be written:", filename, exc))
    /\ result' = RetNone
    /\ pc' = "done"
    /\ UNCHANGED << fn, app_name, to_grayscale, template, data, convert, dt,
                    filename, kwargs, exc, ioCalls, imagesLocals >>

(***************************************************************************)
(* exec_image_open_dialog                                                  *)
(***************************************************************************)
\* The array io.imread returns for a call.
ImreadData(call) == [kind |-> "image", from |-> call]

\* Entry: lines 104-118.
CallOpen(a, g) ==
    /\ fn = "idle"
    /\ fn' = "open"
    /\ pc' = "dialog"
    /\ app_name' = a
    /\ to_grayscale' = g
    /\ UNCHANGED << data, filename, exc, ioCalls, boxes, result,
                    saveLocals, imagesLocals >>

\* getopenfilename: lines 119-123; f = "" when the dialog is cancelled.
OpenDialog(f) ==
    /\ fn = "open" /\ pc = "dialog"
    /\ filename' = f
    /\ pc' = "try"
    /\ UNCHANGED << fn, app_name, to_grayscale, data, exc, ioCalls, boxes,
                    result, saveLocals, imagesLocals >>

\* io.imread reads the file of the given name: it can return only for a
\* name that names a file, and no file has the empty name.
ImreadCanReturn(f) == f # EmptyStr

\* OpenReadCall with to_grayscale left at True.
OpenReadCallGray(f, g, ok) ==
    [op |-> "imread", filename |-> f, to_grayscale |-> TRUE, ok |-> ok]

\* Line 125: io.imread(filename, to_grayscale=to_grayscale).
OpenReadCall(f, g, ok) ==
    [op |-> "imread", filename |-> f, to_grayscale |-> g, ok |-> ok]

\* Lines 124-126 and 136: io.imread is called with whatever the dialog
\* returned, the empty name of a cancelled dialog included.
\* ok: whether io.imread returns (TRUE) or raises (FALSE).
OpenRead(ok) ==
    /\ fn = "open" /\ pc = "try"
    /\ ok => ImreadCanReturn(filename)
    /\ LET call == OpenReadCall(filename, to_grayscale, ok)
       IN  /\ ioCalls' = Append(ioCalls, call)
           /\ IF ok
              THEN /\ data' = ImreadData(call)
                   /\ result' = Ret(<< filename, ImreadData(call) >>)
                   /\ pc' = "done"
                   /\ UNCHANGED exc
              ELSE /\ exc' = "IOError"
                   /\ pc' = "except"
                   /\ UNCHANGED << data, result >>
    /\ UNCHANGED << fn, app_name, to_grayscale, filename, boxes,
                    saveLocals, imagesLocals >>

\* Lines 126-135.
OpenExcept ==
    /\ fn = "open" /\ pc = "except"
    /\ boxes' = Append(boxes, CriticalBox(app_name, "%s could not be opened:", filename, exc))
    /\ result' = RetNone
    /\ pc' = "done"
    /\ UNCHANGED << fn, app_name, to_grayscale, data, filename, exc, ioCalls,
                    saveLocals, imagesLocals >>

(***************************************************************************)
(* exec_images_open_dialog                                                 *)
(***************************************************************************)
offset_list == << "from_end", "from_end_4k", "auto" >>
dtype_list == << "int16", "int32", "uint16", "uint32" >>

\* A form as the user left it.
Form(cls, dtype, mode, endian, manual, m_offset) ==
    [ cls |-> cls, dtype |-> dtype, mode |-> mode, endian_switch |-> endian,
      manual_switch |-> manual, m_offset |-> m_offset ]

\* The same with the "One Parameter for all?" box of nOpenParam.
NForm(dtype, mode, endian, manual, m_offset, o4a) ==
    [ cls |-> "nOpenParam", dtype |-> dtype, mode |-> mode,
      endian_switch |-> endian, manual_switch |-> manual,
      m_offset |-> m_offset, one4all |-> o4a ]

\* What the user can leave in an OpenParam form (one file); the first is
\* the form with its defaults untouched.
OpenParamValues ==
    { Form("OpenParam", dtype_list[3], offset_list[1], TRUE, TRUE, 0),
      Form("OpenParam", dtype_list[1], offset_list[3], FALSE, FALSE, 0),
      Form("OpenParam", dtype_list[4], offset_list[2], TRUE, FALSE, 4092),
      Form("OpenParam", dtype_list[2], offset_list[1], FALSE, TRUE, 4092) }

\* What the user can leave in an nOpenParam form (several files); the
\* first is the form with its defaults untouched.
nOpenParamValues ==
    { NForm(dtype_list[1], offset_list[1], TRUE, TRUE, 0, TRUE),
      NForm(dtype_list[3], offset_list[3], FALSE, FALSE, 0, TRUE),
      NForm(dtype_list[1], offset_list[2], TRUE, FALSE, 4092, FALSE),
      NForm(dtype_list[3], offset_list[1], FALSE, TRUE, 4092, FALSE) }

\* Sequences of distinct file names of length 0..MaxFiles: the selections
\* getopenfilenames can return ([] = cancelled).
Selections ==
    UNION { { s \in [1..n -> OpenNames] : \A i, j \in 1..n : i # j => s[i] # s[j] }
            : n \in 0..MaxFiles }

\* np.dtype(name): a dtype in native byte order.
NpDtype(name) == [name |-> name, byteorder |-> "native"]

\* dtype.newbyteorder(): the same type with the bytes swapped.
newbyteorder(d) ==
    [d EXCEPT !.byteorder = IF @ = "native" THEN "swapped" ELSE "native"]

\* Lines 221-228 and 245-252: the params dict made from an edited form.
ParamsOf(p) ==
    [ offset |-> IF p.manual_switch = TRUE
                 THEN << "int", p.m_offset >>
                 ELSE << "str", p.mode >>,
      dtype  |-> IF p.endian_switch = FALSE
                 THEN newbyteorder(NpDtype(p.dtype))
                 ELSE NpDtype(p.dtype) ]

\* Lines 160-167: raw mode is decided by the first file name alone.
\* isInf: osp.isfile(_base + ".inf").
IsRaw(first, isInf) ==
    LET ext == splitext(first)[2]
    IN  IF ext \in { <<".","b","i","n">>, <<".","r","a","w">>,
                     <<".","i","m","g">>, <<".","i","m","d">> }
        THEN ~isInf
        ELSE FALSE

\* NeedForm with the test of params inverted.
NeedFormInverted(ps, o4a) == ps # EmptyDict \/ ~o4a

\* Line 235: whether a form is asked for the current file.
NeedForm(ps, o4a) == ps = EmptyDict \/ ~o4a

\* LoopItem stuck on the first file name.
LoopItemFirst(fs, i) == fs[1]

\* The for statement's current item.
LoopItem(fs, i) == fs[i]

\* Entry: lines 139-153.
CallImages(a, g) ==
    /\ fn = "idle"
    /\ fn' = "images"
    /\ pc' = "dialog"
    /\ app_name' = a
    /\ to_grayscale' = g
    /\ UNCHANGED << data, filename, exc, ioCalls, boxes, result,
                    saveLocals, imagesLocals >>

\* getopenfilenames: lines 154-158.
ImagesDialog(fs) ==
    /\ fn = "images" /\ pc = "dialog"
    /\ filenames' = fs
    /\ pc' = "setup"
    /\ UNCHANGED << fn, app_name, to_grayscale, data, filename, exc, ioCalls,
                    boxes, result, saveLocals,
                    RAW, params, one4all, param, idx, forms, yielded >>

\* Lines 159-217: with a selection, decide raw mode, empty params, and in
\* raw mode clear one4all; several raw files lead to the form of line 218.
ImagesSetup(isInf) ==
    /\ fn = "images" /\ pc = "setup"
    /\ IF filenames # << >>
       THEN /\ RAW' = IsRaw(filenames[1], isInf)
            /\ params' = EmptyDict
            /\ one4all' = IF IsRaw(filenames[1], isInf) THEN FALSE ELSE one4all
            /\ pc' = IF IsRaw(filenames[1], isInf) /\ Len(filenames) > 1
                     THEN "preform" ELSE "loop"
       ELSE /\ pc' = "loop"
            /\ UNCHANGED << RAW, params, one4all >>
    /\ UNCHANGED << fn, app_name, to_grayscale, data, filename, exc, ioCalls,
                    boxes, result, saveLocals,
                    filenames, param, idx, forms, yielded >>

\* Lines 218-229: the form for all files.  p: the form as the user left
\* it; accepted: what param.edit() returns.
ImagesPreForm(p, accepted) ==
    /\ fn = "images" /\ pc = "preform"
    /\ forms' = Append(forms, [form |-> p, accepted |-> accepted])
    /\ param' = p
    /\ IF ~accepted
       THEN /\ result' = RetNone
            /\ pc' = "done"
            /\ UNCHANGED << params, one4all >>
       ELSE /\ params' = ParamsOf(p)
            /\ one4all' = p.one4all
            /\ pc' = "loop"
            /\ UNCHANGED result
    /\ UNCHANGED << fn, app_name, to_grayscale, data, filename, exc, ioCalls,
                    boxes, saveLocals, filenames, RAW, idx, yielded >>

\* Line 230: the for statement takes the next file name, or the generator
\* ends when there is none left.
ImagesLoop ==
    /\ fn = "images" /\ pc = "loop"
    /\ IF idx < Len(filenames)
       THEN /\ idx' = idx + 1
            /\ filename' = LoopItem(filenames, idx + 1)
            /\ pc' = "body"
            /\ UNCHANGED result
       ELSE /\ result' = RetNone
            /\ pc' = "done"
            /\ UNCHANGED << idx, filename >>
    /\ UNCHANGED << fn, app_name, to_grayscale, data, exc, ioCalls, boxes,
                    saveLocals, filenames, RAW, params, one4all, param,
                    forms, yielded >>

\* Lines 231-236: is a form asked for this file?
ImagesBody ==
    /\ fn = "images" /\ pc = "body"
    /\ pc' = IF RAW = TRUE /\ NeedForm(params, one4all) THEN "form" ELSE "read"
    /\ UNCHANGED << fn, app_name, to_grayscale, data, filename, exc, ioCalls,
                    boxes, result, saveLocals, imagesLocals >>

\* Lines 236-252: the form for the current file, nOpenParam when several
\* files were selected and OpenParam for a single one.
ImagesForm(p, accepted) ==
    /\ fn = "images" /\ pc = "form"
    /\ p.cls = IF Len(filenames) > 1 THEN "nOpenParam" ELSE "OpenParam"
    /\ forms' = Append(forms, [form |-> p, accepted |-> accepted])
    /\ param' = p
    /\ IF ~accepted
       THEN /\ result' = RetNone
            /\ pc' = "done"
            /\ UNCHANGED << params, one4all >>
       ELSE /\ one4all' = IF Len(filenames) > 1 THEN p.one4all ELSE one4all
            /\ params' = ParamsOf(p)
            /\ pc' = "read"
            /\ UNCHANGED result
    /\ UNCHANGED << fn, app_name, to_grayscale, data, filename, exc, ioCalls,
                    boxes, saveLocals, filenames, RAW, idx, yielded >>

\* Line 253.  ok: whether io.imread returns (TRUE) or raises (FALSE).
ImagesRead(ok) ==
    /\ fn = "images" /\ pc = "read"
    /\ LET call == [op |-> "imread", filename |-> filename,
                    to_grayscale |-> to_grayscale, params |-> params,
                    ok |-> ok]
       IN  /\ ioCalls' = Append(ioCalls, call)
           /\ IF ok
              THEN /\ data' = ImreadData(call)
                   /\ pc' = "yield"
                   /\ UNCHANGED exc
              ELSE /\ exc' = "IOError"
                   /\ pc' = "except"
                   /\ UNCHANGED data
    /\ UNCHANGED << fn, app_name, to_grayscale, filename, boxes, result,
                    saveLocals, imagesLocals >>

\* Line 266: the tuple is handed to the consumer, who asks for the next.
ImagesYield ==
    /\ fn = "images" /\ pc = "yield"
    /\ yielded' = Append(yielded, << filename, data >>)
    /\ pc' = "loop"
    /\ UNCHANGED << fn, app_name, to_grayscale, data, filename, exc, ioCalls,
                    boxes, result, saveLocals,
                    filenames, RAW, params, one4all, param, idx, forms >>

\* Lines 254-265.
ImagesExcept ==
    /\ fn = "images" /\ pc = "except"
    /\ boxes' = Append(boxes, CriticalBox(app_name, "%s could not be opened:", filename, exc))
    /\ result' = RetNone
    /\ pc' = "done"
    /\ UNCHANGED << fn, app_name, to_grayscale, data, filename, exc, ioCalls,
                    saveLocals, imagesLocals >>

Next ==
    \/ \E d \in DataDtypes, t \in Templates, a \in AppNames : CallSave(d, t, a)
    \/ \E f \in SaveNames : SaveDialog(f)
    \/ SaveCheck
    \/ \E ok \in BOOLEAN : SaveTry(ok)
    \/ SaveExcept
    \/ \E a \in AppNames, g \in BOOLEAN : CallOpen(a, g)
    \/ \E f \in OpenNames \cup {EmptyStr} : OpenDialog(f)
    \/ \E ok \in BOOLEAN : OpenRead(ok)
    \/ OpenExcept
    \/ \E a \in AppNames, g \in BOOLEAN : CallImages(a, g)
    \/ \E fs \in Selections : ImagesDialog(fs)
    \/ \E isInf \in BOOLEAN : ImagesSetup(isInf)
    \/ \E p \in nOpenParamValues, accepted \in BOOLEAN : ImagesPreForm(p, accepted)
    \/ ImagesLoop
    \/ ImagesBody
    \/ \E p \in OpenParamValues \cup nOpenParamValues, accepted \in BOOLEAN :
           ImagesForm(p, accepted)
    \/ \E ok \in BOOLEAN : ImagesRead(ok)
    \/ ImagesYield
    \/ ImagesExcept

Spec == Init /\ [][Next]_vars
(***************************************************************************)
(* Properties                                                              *)
(***************************************************************************)
\* The calls to guiqwt.io that raised.
FailedCalls == { i \in 1..Len(ioCalls) : ~ioCalls[i].ok }

\* The forms the user cancelled.
CancelledForms == { i \in 1..Len(forms) : ~forms[i].accepted }

\* The file dialog has returned without a file.
DialogCancelled ==
    \/ fn = "save" /\ pc \in {"check", "try", "except", "done"} /\ filename = EmptyStr
    \/ fn = "open" /\ pc \in {"try", "except", "done"} /\ filename = EmptyStr
    \/ fn = "images" /\ pc \notin {"dialog", "setup"} /\ filenames = << >>

\* b is the last component of the path f.
IsBasenameOf(b, f) ==
    \E k \in 0..Len(f) :
        /\ b = SubSeq(f, k + 1, Len(f))
        /\ \A i \in 1..Len(b) : b[i] # "/"
        /\ k = 0 \/ f[k] = "/"

\* C1: exec_image_save_dialog returns the chosen file name when the dialog
\* gives one and io.imwrite does not fail, whatever the dtype of the data
\* and the extension; with an empty file name it returns None and
\* io.imwrite is not called.
C1_SaveReturnsFilename ==
    (fn = "save" /\ pc = "done") =>
        /\ (filename # EmptyStr /\ FailedCalls = {}) => result = Ret(filename)
        /\ filename = EmptyStr => (result = RetNone /\ ioCalls = << >>)

C3_ImagesYieldEachFileOnce ==
    fn = "images" =>
        /\ Len(yielded) <= Len(filenames)
        /\ \A i \in 1..Len(yielded) :
               /\ yielded[i][1] = filenames[i]
               /\ i <= Len(ioCalls)
               /\ ioCalls[i].filename = filenames[i]
               /\ yielded[i][2] = ImreadData(ioCalls[i])
        /\ (pc = "done" /\ FailedCalls = {} /\ CancelledForms = {}) =>
               /\ Len(yielded) = Len(filenames)
               /\ Len(ioCalls) = Len(filenames)
        /\ DialogCancelled =>
               /\ yielded = << >>
               /\ ioCalls = << >>
               /\ forms = << >>
               /\ boxes = << >>

\* C3 witness: a selection of several files has been yielded to the end.
C3_Witness ==
    /\ fn = "images" /\ pc = "done"
    /\ Len(filenames) >= 2
    /\ Len(yielded) = Len(filenames)

\* C4: in each of the three functions, when the io.imread / io.imwrite
\* call raises, the function ends returning None after exactly one
\* QMessageBox.critical whose title is app_name, or the translated "Error"
\* when app_name is None, and which names the basename of the failing file.
C4_IOFailureShowsOneBox ==
    (pc = "done" /\ FailedCalls # {}) =>
        /\ result = RetNone
        /\ Len(boxes) = 1
        /\ boxes[1].title = (IF app_name = None THEN Tr("Error") ELSE app_name)
        /\ \E i \in FailedCalls :
               /\ i = Len(ioCalls)
               /\ IsBasenameOf(boxes[1].file, ioCalls[i].filename)

\* C4 witness: the read of the second of several files has raised, in a
\* call with an application name.
C4_Witness ==
    /\ fn = "images" /\ pc = "done"
    /\ app_name # None
    /\ FailedCalls = {2}
    /\ RFind(filename, "/") > 0
    /\ Len(boxes) = 1

\* The keyword arguments C5 expects io.imwrite to get.
C5_ExpectedKwargs(dtypestr, fname, tmpl) ==
    LET ext == splitext(fname)[2]
        isDcm == Lower(ext) = <<".","d","c","m">>
        asText == ext \in { <<".","t","x","t">>, <<".","c","s","v">>,
                            <<".","a","s","c">>, <<".","d","a","t">>,
                            <<".","n","p","y">> }
        wide == ext \in { <<".","t","i","f">>, <<".","t","i","f","f">>,
                          <<".","d","c","m">> }
        to == IF wide THEN "uint16" ELSE "uint8"
    IN  IF (dtypestr = "<f4" \/ dtypestr = "<f8") /\ ~asText
        THEN IF isDcm
             THEN [max_range |-> TRUE, dtype |-> to, template |-> tmpl]
             ELSE [max_range |-> TRUE, dtype |-> to]
        ELSE IF isDcm THEN [template |-> tmpl] ELSE EmptyDict

\* C5: exec_image_save_dialog with a file name calls io.imwrite with
\* max_range=True and dtype uint16 (.tif, .tiff, .dcm) or uint8 (other
\* extensions) for float data outside the five text/array extensions, and
\* without dtype and max_range otherwise; template is passed exactly for
\* .dcm.
C5_WriteSelectedByDtypeAndExt ==
    (fn = "save" /\ pc = "done" /\ filename # EmptyStr) =>
        /\ Len(ioCalls) = 1
        /\ ioCalls[1].op = "imwrite"
        /\ ioCalls[1].filename = filename
        /\ ioCalls[1].kwargs = C5_ExpectedKwargs(data.dtype, filename, template)

\* The first form was the one for several raw files, accepted with
\* "One Parameter for all?" checked.
C6_FirstFormForAll ==
    /\ fn = "images"
    /\ Len(forms) >= 1
    /\ forms[1].accepted
    /\ forms[1].form.cls = "nOpenParam"
    /\ forms[1].form.one4all

\* C6: when the first raw-parameter form of a selection of several files
\* is accepted with "One Parameter for all?" checked, no other form is
\* shown and every read gets the params of that form: offset = m_offset
\* with manual_switch and the offset mode without it, dtype byte-swapped
\* without endian_switch; a call that ends without a failed read has read
\* every selected file.
C6_OneFormForAllFiles ==
    C6_FirstFormForAll =>
        LET f == forms[1].form IN
        /\ Len(filenames) > 1
        /\ Len(forms) = 1
        /\ \A i \in 1..Len(ioCalls) :
               /\ ioCalls[i].filename = filenames[i]
               /\ ioCalls[i].params.offset =
                      (IF f.manual_switch THEN << "int", f.m_offset >>
                                          ELSE << "str", f.mode >>)
               /\ ioCalls[i].params.dtype.name = f.dtype
               /\ ioCalls[i].params.dtype.byteorder =
                      (IF f.endian_switch THEN "native" ELSE "swapped")
        /\ (pc = "done" /\ FailedCalls = {}) => Len(ioCalls) = Len(filenames)

\* C6 witness: all files were read with the params of the one form, left
\* with the mode as offset and the byte order swapped.
C6_Witness ==
    /\ C6_FirstFormForAll
    /\ pc = "done"
    /\ ~forms[1].form.manual_switch
    /\ ~forms[1].form.endian_switch
    /\ Len(ioCalls) = Len(filenames)
    /\ FailedCalls = {}

\* C7: a message box is shown only after an io.imread / io.imwrite call on
\* a non-empty file name has failed, and cancelling the file dialog leads
\* to no io call and no message box.
C7_BoxOnlyAfterFailedIO ==
    /\ boxes # << >> =>
           \E i \in FailedCalls : ioCalls[i].filename # EmptyStr
    /\ DialogCancelled => (ioCalls = << >> /\ boxes = << >>)
====
